---- MODULE Spec2Model ----
(***************************************************************************)
(* StreamMessagesHandler (langgraph/pregel/messages.py): the callback      *)
(* handler behind stream_mode="messages".  The handler's fields are the    *)
(* registry `metadata` (run id -> (namespace path, metadata dict)) and the *)
(* set `seen` of message ids; `stream` is the sink.  Python objects have   *)
(* reference semantics: message objects and metadata dicts live in a heap  *)
(* (msgId, mdTags) because the handler mutates them in place               *)
(* (message.id = ..., meta[1]["tags"] = ...).                              *)
(*                                                                         *)
(* Text is modelled as a sequence of one-character strings so that split   *)
(* and startswith are computed, not assumed.                               *)
(***************************************************************************)
EXTENDS Integers, Sequences, FiniteSets

VARIABLES
    metadata,   \* self.metadata : run id -> [ns, md]; the domain is the set of registered runs
    seen,       \* self.seen     : set of message ids
    sink,       \* the chunks handed to self.stream, in call order
    msgId,      \* heap: message object -> its id field (NULL when None)
    mdTags,     \* heap: metadata dict object -> its "tags" entry
    nextUuid,   \* number of uuid4() calls made so far
    thr,        \* the threads that run on_chain_end step by step
    startEv,    \* history: per run id, its phase and the start event the host delivered for it
    last        \* history: the handler call that produced the current state

vars == <<metadata, seen, sink, msgId, mdTags, nextUuid, thr, startEv, last>>

----------------------------------------------------------------------------
(* Bounds of the exploration *)

MaxSink == 2
MaxNest == 5
MaxStack == 7

\* run ids
Runs == {"r1", "r2"}

----------------------------------------------------------------------------
(* Identities *)

NULL == <<"none", 0>>
X == <<"id", 1>>
Y == <<"id", 2>>

\* str(uuid4()): the n-th call returns a value no other call and no caller-supplied id equals
uuid4(n) == <<"uuid", n>>

\* message objects the host can pass, with the id each one starts with:
\* two without id, two distinct objects carrying the same id, one more
InitMsgId == <<NULL, NULL, X, X, Y>>
Objs == DOMAIN InitMsgId
\* the messages of the chunks of token events
TokenObjs == {1, 3}

----------------------------------------------------------------------------
(* Text, tags, namespaces *)

NS_SEP == "|"
TAG_NOSTREAM == <<"n", "o", "-", "s", "t", "r", "e", "a", "m">>
TAG_HIDDEN == <<"h", "i", "d", "d", "e", "n">>
SEQ_STEP == <<"s", "e", "q", ":", "s", "t", "e", "p">>

\* t.startswith(p)
startswith(t, p) == Len(t) >= Len(p) /\ SubSeq(t, 1, Len(p)) = p

\* s.split(NS_SEP), scanning s from position i with the segment cur open
RECURSIVE split_from(_, _, _)
split_from(s, i, cur) ==
    IF i > Len(s) THEN <<cur>>
    ELSE IF s[i] = NS_SEP THEN <<cur>> \o split_from(s, i + 1, <<>>)
    ELSE split_from(s, i + 1, Append(cur, s[i]))

\* the string as one segment
split_whole(s) == <<s>>

split(s) == split_from(s, 1, <<>>)

Range(s) == {s[i] : i \in DOMAIN s}

TagUser == <<"u">>
TagSeq1 == SEQ_STEP \o <<":", "1">>

\* tag lists of start events (<<>> is also tags=None) and of token events
ModelStartTags == {<<>>, <<TagUser, TAG_NOSTREAM>>}
NodeStartTags == {<<>>, <<TagUser, TAG_HIDDEN>>}
TokenTags == {<<>>, <<TagSeq1, TagUser>>}
\* the tag lists of the token events of SpecTokens
TagOther == <<"s", "e", "q">>
WideTokenTags == {<<>>, <<TagSeq1>>, <<TagSeq1, TagUser>>, <<TagOther>>}

----------------------------------------------------------------------------
(* Metadata dicts.  NoMd is metadata=None or {}.  The others are dict      *)
(* objects: the keys the handler reads, and the initial "tags" entry.      *)

NoMd == 0
MdObjs == <<
    [hasNs |-> TRUE,  ns |-> <<"a">>,           node |-> "N"],
    [hasNs |-> TRUE,  ns |-> <<"a", "|", "b">>, node |-> "N"],
    [hasNs |-> FALSE, ns |-> <<>>,              node |-> "None"] >>
InitMdTags == <<
    [has |-> FALSE, tags |-> <<>>],
    [has |-> TRUE,  tags |-> <<TagSeq1>>],
    [has |-> FALSE, tags |-> <<>>] >>
MdRefs == DOMAIN MdObjs

\* kwargs.get("name"): "None" when the host passes no name
Names == {"N", "tool", "None"}

----------------------------------------------------------------------------
(* Python values the host passes as inputs and responses *)

None_ == [kind |-> "none", ref |-> 0, kids |-> <<>>]
Str == [kind |-> "str", ref |-> 0, kids |-> <<>>]
Unreadable == [kind |-> "raise", ref |-> 0, kids |-> <<>>]
Msg(o) == [kind |-> "msg", ref |-> o, kids |-> <<>>]
Dict(vs) == [kind |-> "dict", ref |-> 0, kids |-> vs]
List(vs) == [kind |-> "list", ref |-> 0, kids |-> vs]
\* any other object; vs are its non-dunder attributes in dir() order,
\* Unreadable standing for one whose getattr raises AttributeError
Obj(vs) == [kind |-> "obj", ref |-> 0, kids |-> vs]
\* a bound method: an object none of whose non-dunder attributes leads anywhere
Method == Obj(<<>>)
\* Command(update=, resume=, goto=); dir() order of its non-dunder names is
\* PARENT, _update_as_tuples, goto, graph, resume, update
Cmd(update, resume, goto) ==
    [kind |-> "cmd", ref |-> 0, kids |-> <<Str, Method, goto, None_, resume, update>>]
CmdUpdateIx == Len(Cmd(None_, None_, None_).kids)

Wrap(k, v) == [kind |-> k, ref |-> 0, kids |-> <<v>>]

RECURSIVE Nest(_, _, _)
Nest(k, n, v) == IF n = 0 THEN v ELSE Wrap(k, Nest(k, n - 1, v))

ContainerKinds == {"dict", "list", "obj"}

\* a cap off by one
DepthCapOffByOne == 5 + 1

\* depth >= 5 stops the traversal
DepthCap == 5

\* the responses of the node-end events of Spec
Responses ==
    {None_, Str, Msg(4), Wrap("dict", Msg(3)), List(<<Msg(2), Dict(<<Msg(4)>>)>>)}

\* the responses of the node-end events of SpecExtract
DeepResponses ==
    {Nest(k, n, Msg(o)) : k \in ContainerKinds, n \in {0, 1} \cup ((DepthCap - 1)..MaxNest),
                          o \in {1, 3}}
    \cup {List(<<Msg(a), Dict(<<Msg(b)>>)>>) : a \in {1, 3, 5}, b \in {2, 4, 5}}
    \cup {List(<<Nest("list", MaxNest - 1, Msg(p[1])), Nest("dict", DepthCap - 2, Msg(p[2]))>>) :
            p \in {<<3, 4>>, <<1, 1>>, <<3, 5>>}}
    \cup {Cmd(Dict(<<Msg(3)>>), None_, None_),
          Cmd(None_, Msg(3), None_),
          Cmd(Dict(<<Msg(4)>>), Msg(1), List(<<Obj(<<Msg(5), Str>>)>>))}
    \cup {None_, Obj(<<Unreadable, Msg(3)>>)}

Inputs ==
    {Dict(<<Msg(3)>>),
     Dict(<<Str, List(<<Msg(3), Msg(5)>>)>>),
     Dict(<<Dict(<<Msg(3)>>)>>),
     Dict(<<Msg(1)>>),
     List(<<Msg(3)>>),
     Msg(3),
     None_}

----------------------------------------------------------------------------
(* The handler *)

\* the mutable state a handler call threads through its helpers
Here == [seen |-> seen, sink |-> sink, msgId |-> msgId,
         nextUuid |-> nextUuid, mdTags |-> mdTags]

Store(h) ==
    /\ seen' = h.seen
    /\ sink' = h.sink
    /\ msgId' = h.msgId
    /\ nextUuid' = h.nextUuid
    /\ mdTags' = h.mdTags

\* the StreamChunk (meta[0], "messages", (message, meta[1])); g is history
Chunk(h, meta, message, id, g) ==
    [ns |-> meta.ns, mode |-> "messages", msg |-> message, id |-> id,
     md |-> meta.md, tags |-> h.mdTags[meta.md],
     run |-> g.run, via |-> g.via, path |-> g.path,
     srcNull |-> (h.msgId[message] = NULL), idSeen |-> (id \in h.seen)]

\* _emit without the dedupe test
emit_always(h, meta, message, dedupe, g) ==
    LET wasNone == h.msgId[message] = NULL
        id == IF wasNone THEN uuid4(h.nextUuid) ELSE h.msgId[message]
    IN [h EXCEPT !.msgId[message] = id,
                 !.nextUuid = IF wasNone THEN @ + 1 ELSE @,
                 !.seen = @ \cup {id},
                 !.sink = Append(@, Chunk(h, meta, message, id, g))]

\* _emit without the assignment of a fresh id
emit_keeps_none(h, meta, message, dedupe, g) ==
    IF dedupe /\ h.msgId[message] \in h.seen
    THEN h
    ELSE [h EXCEPT !.seen = @ \cup {h.msgId[message]},
                   !.sink = Append(@, Chunk(h, meta, message, h.msgId[message], g))]

\* _emit without the insertion into seen
emit_forgets(h, meta, message, dedupe, g) ==
    IF dedupe /\ h.msgId[message] \in h.seen
    THEN h
    ELSE LET wasNone == h.msgId[message] = NULL
             id == IF wasNone THEN uuid4(h.nextUuid) ELSE h.msgId[message]
         IN [h EXCEPT !.msgId[message] = id,
                      !.nextUuid = IF wasNone THEN @ + 1 ELSE @,
                      !.sink = Append(@, Chunk(h, meta, message, id, g))]

\* _emit(self, meta, message, *, dedupe)
_emit(h, meta, message, dedupe, g) ==
    IF dedupe /\ h.msgId[message] \in h.seen
    THEN h
    ELSE LET wasNone == h.msgId[message] = NULL
             id == IF wasNone THEN uuid4(h.nextUuid) ELSE h.msgId[message]
         IN [h EXCEPT !.msgId[message] = id,
                      !.nextUuid = IF wasNone THEN @ + 1 ELSE @,
                      !.seen = @ \cup {id},
                      !.sink = Append(@, Chunk(h, meta, message, id, g))]

\* dedupe defaulting to True
DedupeDefaultTrue == TRUE

\* the default of _emit's keyword argument dedupe
DedupeDefault == FALSE

\* hasattr(response, "__dir__") and callable(response.__dir__): true of every object
HasDir(response) == TRUE

\* the items visited last to first
ItemsReversed(response) ==
    [i \in DOMAIN response.kids |->
        <<Len(response.kids) + 1 - i, response.kids[Len(response.kids) + 1 - i]>>]

\* the (position, value) pairs a for loop over the container visits, in order
Items(response) == [i \in DOMAIN response.kids |-> <<i, response.kids[i]>>]

RECURSIVE _process_response(_, _, _, _, _)
RECURSIVE for_each(_, _, _, _, _, _)

\* the body of the for loops of _process_response from item i on; a getattr
\* that raises AttributeError skips the item
for_each(h, items, i, meta, depth, g) ==
    IF i > Len(items) THEN h
    ELSE IF items[i][2].kind = "raise"
    THEN for_each(h, items, i + 1, meta, depth, g)
    ELSE for_each(
            _process_response(h, items[i][2], meta, depth + 1,
                              [g EXCEPT !.path = Append(@, items[i][1])]),
            items, i + 1, meta, depth, g)

\* _process_response calls _emit with dedupe off
ProcessDedupeOff == FALSE

\* self._emit(meta, response, dedupe=True)
ProcessDedupe == TRUE

\* the recursion never cut off
at_depth_cap_never(depth) == FALSE

\* if depth >= 5
at_depth_cap(depth) == depth >= DepthCap

\* _process_response(self, response, meta, depth)
_process_response(h, response, meta, depth, g) ==
    IF response.kind = "none" THEN h
    ELSE IF at_depth_cap(depth) THEN h
    ELSE IF response.kind = "msg"
    THEN _emit(h, meta, response.ref, ProcessDedupe, g)
    ELSE IF response.kind = "dict"
    THEN for_each(h, Items(response), 1, meta, depth, g)
    ELSE IF response.kind = "list"
    THEN for_each(h, Items(response), 1, meta, depth, g)
    ELSE IF HasDir(response)
    THEN for_each(h, Items(response), 1, meta, depth, g)
    ELSE IF response.kind = "cmd"
    THEN _process_response(h, response.kids[CmdUpdateIx], meta, depth + 1,
                           [g EXCEPT !.path = Append(@, CmdUpdateIx)])
    ELSE h

\* the tags not consulted
registers_model_any_tags(tags, md) == md # NoMd

\* metadata and (not tags or TAG_NOSTREAM not in tags)
registers_model(tags, md) ==
    md # NoMd /\ (tags = <<>> \/ TAG_NOSTREAM \notin Range(tags))

\* the tags not consulted
registers_node_any_tags(name, tags, md) == md # NoMd /\ name = MdObjs[md].node

\* metadata and kwargs.get("name") == metadata.get("langgraph_node")
\*          and (not tags or TAG_HIDDEN not in tags)
registers_node(name, tags, md) ==
    /\ md # NoMd
    /\ name = MdObjs[md].node
    /\ (tags = <<>> \/ TAG_HIDDEN \notin Range(tags))

\* history: the non-null ids of the messages an input record holds directly as a
\* value or as an element of a sequence value
input_record_ids(inputs) ==
    IF inputs.kind # "dict" THEN {}
    ELSE {msgId[v.ref] : v \in
            {v \in Range(inputs.kids) : v.kind = "msg"}
            \cup UNION {{e \in Range(l.kids) : e.kind = "msg"} :
                        l \in {l \in Range(inputs.kids) : l.kind = "list"}}}
         \ {NULL}

\* every (message object, depth) occurrence in a value, depth counting the
\* enclosing containers
RECURSIVE Occurs(_, _)
Occurs(v, d) ==
    IF v.kind = "msg" THEN {<<v.ref, d>>}
    ELSE UNION {Occurs(v.kids[i], d + 1) : i \in DOMAIN v.kids}

\* history: the non-null ids of the messages an input record holds at any depth
input_record_deep_ids(inputs) ==
    IF inputs.kind # "dict" THEN {}
    ELSE {msgId[p[1]] : p \in Occurs(inputs, 0)} \ {NULL}

\* only the values that are messages themselves
seed_ids_direct_only(inputs) ==
    IF inputs.kind # "dict" THEN {}
    ELSE {msgId[v.ref] : v \in {v \in Range(inputs.kids) : v.kind = "msg"}} \ {NULL}

\* the ids on_chain_start adds to self.seen for the inputs
seed_ids(inputs) ==
    IF inputs.kind # "dict" THEN {}
    ELSE UNION {
        LET value == inputs.kids[k] IN
        IF value.kind = "msg"
        THEN {msgId[value.ref]} \ {NULL}
        ELSE IF value.kind = "list"
        THEN {msgId[value.kids[j].ref] :
                j \in {j \in DOMAIN value.kids : value.kids[j].kind = "msg"}} \ {NULL}
        ELSE {}
        : k \in DOMAIN inputs.kids}

\* the tags kept as they are
filtered_tags_keeps_all(tags) == tags

\* [t for t in (tags or []) if not t.startswith("seq:step")]
filtered_tags(tags) == SelectSeq(tags, LAMBDA t : ~startswith(t, SEQ_STEP))

Event(kind, run_id) ==
    [kind |-> kind, run |-> run_id, registered |-> run_id \in DOMAIN metadata,
     chunkOk |-> FALSE, obj |-> 0, value |-> None_, n0 |-> Len(sink),
     raised |-> FALSE, tags |-> <<>>]

\* The host (the callback manager) mints a run id per run and delivers, for a
\* chat model run, on_chat_model_start, then on_llm_new_token any number of times,
\* then on_llm_end or on_llm_error; for a chain run, on_chain_start, then
\* on_chain_end or on_chain_error.
NoStart == [phase |-> "new", kind |-> "none",
            noStream |-> FALSE, hidden |-> FALSE, inputIds |-> {},
            md |-> NoMd, rawIds |-> {}, deepIds |-> {}]

IsOpen(run_id, kind) ==
    startEv[run_id].phase = "open" /\ startEv[run_id].kind = kind

Close(run_id) == startEv' = [startEv EXCEPT ![run_id].phase = "closed"]

\* self.metadata[run_id] = (tuple(metadata["langgraph_checkpoint_ns"].split(NS_SEP)), metadata)
Register(run_id, md) ==
    [r \in DOMAIN metadata \cup {run_id} |->
        IF r = run_id THEN [ns |-> split(MdObjs[md].ns), md |-> md] ELSE metadata[r]]

\* self.metadata.pop(run_id, None)
Pop(run_id) == [r \in DOMAIN metadata \ {run_id} |-> metadata[r]]

on_chat_model_start(run_id, tags, md) ==
    /\ thr' = thr
    /\ startEv[run_id].phase = "new"
    /\ IF registers_model(tags, md)
       THEN IF MdObjs[md].hasNs
            THEN /\ metadata' = Register(run_id, md)
                 /\ last' = Event("chat_model_start", run_id)
            ELSE \* KeyError leaves the handler as it was
                 /\ metadata' = metadata
                 /\ last' = [Event("chat_model_start", run_id) EXCEPT !.raised = TRUE]
       ELSE /\ metadata' = metadata
            /\ last' = Event("chat_model_start", run_id)
    /\ startEv' = [startEv EXCEPT ![run_id] =
            [NoStart EXCEPT !.phase = "open", !.kind = "model",
                            !.noStream = TAG_NOSTREAM \in Range(tags),
                            !.md = IF run_id \in DOMAIN metadata' THEN md ELSE NoMd]]
    /\ UNCHANGED <<seen, sink, msgId, mdTags, nextUuid>>

\* the tags written whatever the filtered list
writes_tags_always(ft) == TRUE

\* if filtered_tags:
writes_tags(ft) == ft # <<>>

\* every chunk taken for a chat generation chunk
is_chat_chunk_any(chunkOk) == TRUE

\* isinstance(chunk, ChatGenerationChunk)
is_chat_chunk(chunkOk) == chunkOk

on_llm_new_token(run_id, chunkOk, message, tags) ==
    /\ thr' = thr
    /\ IsOpen(run_id, "model")
    /\ last' = [Event("llm_new_token", run_id) EXCEPT
                    !.chunkOk = chunkOk,
                    !.tags = tags,
                    !.obj = IF chunkOk /\ run_id \in DOMAIN metadata THEN message ELSE 0]
    /\ IF ~is_chat_chunk(chunkOk) THEN UNCHANGED <<seen, sink, msgId, mdTags, nextUuid>>
       ELSE IF run_id \in DOMAIN metadata
       THEN LET meta == metadata[run_id]
                ft == filtered_tags(tags)
                h1 == IF writes_tags(ft)
                      THEN [Here EXCEPT !.mdTags[meta.md] = [has |-> TRUE, tags |-> ft]]
                      ELSE Here
                h2 == _emit(h1, meta, message, DedupeDefault,
                            [run |-> run_id, via |-> "token", path |-> <<>>])
            IN Len(h2.sink) <= MaxSink /\ Store(h2)
       ELSE UNCHANGED <<seen, sink, msgId, mdTags, nextUuid>>
    /\ UNCHANGED <<metadata, startEv>>

\* on_llm_end emptying the registry
on_llm_end_clears(run_id) ==
    /\ thr' = thr
    /\ IsOpen(run_id, "model")
    /\ metadata' = [r \in {} |-> NoMd]
    /\ Close(run_id)
    /\ last' = Event("llm_end", run_id)
    /\ UNCHANGED <<seen, sink, msgId, mdTags, nextUuid>>

on_llm_end(run_id) ==
    /\ thr' = thr
    /\ IsOpen(run_id, "model")
    /\ metadata' = Pop(run_id)
    /\ Close(run_id)
    /\ last' = Event("llm_end", run_id)
    /\ UNCHANGED <<seen, sink, msgId, mdTags, nextUuid>>

on_llm_error(run_id) ==
    /\ thr' = thr
    /\ IsOpen(run_id, "model")
    /\ metadata' = Pop(run_id)
    /\ Close(run_id)
    /\ last' = Event("llm_error", run_id)
    /\ UNCHANGED <<seen, sink, msgId, mdTags, nextUuid>>

\* on_chain_start seeding before it tests whether to register
on_chain_start_seeds_first(run_id, name, inputs, tags, md) ==
    /\ thr' = thr
    /\ startEv[run_id].phase = "new"
    /\ IF registers_node(name, tags, md)
       THEN IF MdObjs[md].hasNs
            THEN /\ metadata' = Register(run_id, md)
                 /\ seen' = seen \cup seed_ids(inputs)
                 /\ last' = Event("chain_start", run_id)
            ELSE /\ metadata' = metadata /\ seen' = seen \cup seed_ids(inputs)
                 /\ last' = [Event("chain_start", run_id) EXCEPT !.raised = TRUE]
       ELSE /\ metadata' = metadata /\ seen' = seen \cup seed_ids(inputs)
            /\ last' = Event("chain_start", run_id)
    /\ startEv' = [startEv EXCEPT ![run_id] =
            [phase |-> "open",
             kind |-> "node",
             noStream |-> FALSE,
             hidden |-> TAG_HIDDEN \in Range(tags),
             inputIds |-> IF run_id \in DOMAIN metadata'
                          THEN input_record_ids(inputs) ELSE {},
             md |-> IF run_id \in DOMAIN metadata' THEN md ELSE NoMd,
             rawIds |-> input_record_ids(inputs),
             deepIds |-> IF run_id \in DOMAIN metadata'
                         THEN input_record_deep_ids(inputs) ELSE {}]]
    /\ UNCHANGED <<sink, msgId, mdTags, nextUuid>>

on_chain_start(run_id, name, inputs, tags, md) ==
    /\ thr' = thr
    /\ startEv[run_id].phase = "new"
    /\ IF registers_node(name, tags, md)
       THEN IF MdObjs[md].hasNs
            THEN /\ metadata' = Register(run_id, md)
                 /\ seen' = seen \cup seed_ids(inputs)
                 /\ last' = Event("chain_start", run_id)
            ELSE /\ UNCHANGED <<metadata, seen>>
                 /\ last' = [Event("chain_start", run_id) EXCEPT !.raised = TRUE]
       ELSE /\ UNCHANGED <<metadata, seen>>
            /\ last' = Event("chain_start", run_id)
    /\ startEv' = [startEv EXCEPT ![run_id] =
            [phase |-> "open",
             kind |-> "node",
             noStream |-> FALSE,
             hidden |-> TAG_HIDDEN \in Range(tags),
             inputIds |-> IF run_id \in DOMAIN metadata'
                          THEN input_record_ids(inputs) ELSE {},
             md |-> IF run_id \in DOMAIN metadata' THEN md ELSE NoMd,
             rawIds |-> input_record_ids(inputs),
             deepIds |-> IF run_id \in DOMAIN metadata'
                         THEN input_record_deep_ids(inputs) ELSE {}]]
    /\ UNCHANGED <<sink, msgId, mdTags, nextUuid>>

on_chain_end(run_id, response) ==
    /\ thr' = thr
    /\ IsOpen(run_id, "node")
    /\ last' = [Event("chain_end", run_id) EXCEPT
                    !.value = response]
    /\ metadata' = Pop(run_id)
    /\ Close(run_id)
    /\ IF run_id \in DOMAIN metadata
       THEN LET h == _process_response(Here, response, metadata[run_id], 0,
                        [run |-> run_id, via |-> "node", path |-> <<>>])
            IN Len(h.sink) <= MaxSink /\ Store(h)
       ELSE UNCHANGED <<seen, sink, msgId, mdTags, nextUuid>>

\* on_chain_error leaving the entry in place
on_chain_error_keeps_entry(run_id) ==
    /\ thr' = thr
    /\ IsOpen(run_id, "node")
    /\ Close(run_id)
    /\ last' = Event("chain_error", run_id)
    /\ UNCHANGED <<metadata, seen, sink, msgId, mdTags, nextUuid>>

on_chain_error(run_id) ==
    /\ thr' = thr
    /\ IsOpen(run_id, "node")
    /\ metadata' = Pop(run_id)
    /\ Close(run_id)
    /\ last' = Event("chain_error", run_id)
    /\ UNCHANGED <<seen, sink, msgId, mdTags, nextUuid>>

----------------------------------------------------------------------------

-----------------------------------------------------------------------------
(* on_chain_end step by step: one step per call of _process_response, per loop
   iteration and per statement of _emit *)

\* the response objects, which refer to one another by position: 3 contains
\* itself, 4 and 5 contain each other, 6 has itself as an attribute twice
HeapMsg(o) == [kind |-> "msg", ref |-> o, kids |-> <<>>]
HeapBox(kind, kids) == [kind |-> kind, ref |-> 0, kids |-> kids]
Heap == <<HeapMsg(3), HeapMsg(4),
          HeapBox("dict", <<3, 1>>),
          HeapBox("list", <<5>>), HeapBox("dict", <<4, 2>>),
          HeapBox("obj", <<6, 6, 7>>), HeapMsg(1),
          HeapBox("list", <<1, 2>>), HeapBox("none", <<>>)>>
CyclicRoots == {3, 4, 6, 9}
SharedIdRoots == {1, 2, 8}

Threads == {"t1", "t2"}

NoMeta == [ns |-> <<>>, md |-> NoMd]
IdleThread == [pc |-> "idle", run |-> "", meta |-> NoMeta, stack |-> <<>>,
               m |-> 0, overlap |-> FALSE, deepest |-> 0]

Active(t) == thr[t].pc \notin {"idle", "done"}

\* a call _process_response(node, depth); i is the position in its loop, 0 before
\* the loop
Frame(node, depth) == [node |-> node, depth |-> depth, i |-> 0]

Top(t) == thr[t].stack[Len(thr[t].stack)]

\* the return of the innermost call; on_chain_end returns with the outermost
Return(th) ==
    LET st == SubSeq(th.stack, 1, Len(th.stack) - 1)
    IN [th EXCEPT !.stack = st, !.m = 0,
                  !.pc = IF st = <<>> THEN "done" ELSE "walk"]

\* history: overlap records whether another invocation was running during this
\* one, deepest the greatest depth of a call of _process_response
begin_chain_end(t, run_id, root) ==
    /\ thr[t].pc = "idle"
    /\ IsOpen(run_id, "node")
    /\ metadata' = Pop(run_id)
    /\ Close(run_id)
    /\ last' = Event("chain_end", run_id)
    /\ thr' = [u \in Threads |->
            IF u = t
            THEN IF run_id \in DOMAIN metadata
                 THEN [pc |-> "walk", run |-> run_id, meta |-> metadata[run_id],
                       stack |-> <<Frame(root, 0)>>, m |-> 0, deepest |-> 0,
                       overlap |-> \E v \in Threads \ {t} : Active(v)]
                 ELSE [IdleThread EXCEPT !.pc = "done", !.run = run_id]
            ELSE [thr[u] EXCEPT !.overlap = @ \/ (Active(u) /\ run_id \in DOMAIN metadata)]]
    /\ UNCHANGED <<seen, sink, msgId, mdTags, nextUuid>>

\* the tests at the head of _process_response
enter(t) ==
    /\ thr[t].pc = "walk" /\ Top(t).i = 0
    /\ LET f == Top(t)
           node == Heap[f.node]
       IN thr' = [thr EXCEPT ![t] =
            IF node.kind = "none" THEN Return(@)
            ELSE IF at_depth_cap(f.depth) THEN Return(@)
            ELSE IF node.kind = "msg" THEN [@ EXCEPT !.pc = "test", !.m = node.ref]
            ELSE [@ EXCEPT !.stack[Len(@.stack)].i = 1]]
    /\ UNCHANGED <<metadata, seen, sink, msgId, mdTags, nextUuid, startEv, last>>

\* one iteration of the loop over the values, the items or the attributes
iterate(t) ==
    /\ thr[t].pc = "walk" /\ Top(t).i >= 1
    /\ LET f == Top(t)
           node == Heap[f.node]
       IN IF f.i > Len(node.kids)
          THEN thr' = [thr EXCEPT ![t] = Return(@)]
          ELSE /\ Len(thr[t].stack) < MaxStack
               /\ thr' = [thr EXCEPT
                    ![t].stack = Append([@ EXCEPT ![Len(@)].i = f.i + 1],
                                        Frame(node.kids[f.i], f.depth + 1)),
                    ![t].deepest = IF f.depth + 1 > @ THEN f.depth + 1 ELSE @]
    /\ UNCHANGED <<metadata, seen, sink, msgId, mdTags, nextUuid, startEv, last>>

\* if dedupe and message.id in self.seen: return
emit_test(t) ==
    /\ thr[t].pc = "test"
    /\ thr' = [thr EXCEPT ![t] =
            IF ProcessDedupe /\ msgId[@.m] \in seen THEN Return(@)
            ELSE [@ EXCEPT !.pc = "assign"]]
    /\ UNCHANGED <<metadata, seen, sink, msgId, mdTags, nextUuid, startEv, last>>

\* if message.id is None: message.id = str(uuid4())
emit_assign(t) ==
    /\ thr[t].pc = "assign"
    /\ IF msgId[thr[t].m] = NULL
       THEN /\ msgId' = [msgId EXCEPT ![thr[t].m] = uuid4(nextUuid)]
            /\ nextUuid' = nextUuid + 1
       ELSE UNCHANGED <<msgId, nextUuid>>
    /\ thr' = [thr EXCEPT ![t].pc = "insert"]
    /\ UNCHANGED <<metadata, seen, sink, mdTags, startEv, last>>

\* self.seen.add(message.id)
emit_insert(t) ==
    /\ thr[t].pc = "insert"
    /\ seen' = seen \cup {msgId[thr[t].m]}
    /\ thr' = [thr EXCEPT ![t].pc = "stream"]
    /\ UNCHANGED <<metadata, sink, msgId, mdTags, nextUuid, startEv, last>>

\* self.stream((meta[0], "messages", (message, meta[1])))
emit_stream(t) ==
    /\ thr[t].pc = "stream"
    /\ sink' = Append(sink, Chunk(Here, thr[t].meta, thr[t].m, msgId[thr[t].m],
                                  [run |-> thr[t].run, via |-> "node", path |-> <<>>]))
    /\ thr' = [thr EXCEPT ![t] = Return(@)]
    /\ UNCHANGED <<metadata, seen, msgId, mdTags, nextUuid, startEv, last>>

Init ==
    /\ metadata = <<>>
    /\ seen = {}
    /\ sink = <<>>
    /\ msgId = InitMsgId
    /\ mdTags = InitMdTags
    /\ nextUuid = 0
    /\ thr = [t \in Threads |-> IdleThread]
    /\ startEv = [r \in Runs |-> NoStart]
    /\ last = [kind |-> "init", run |-> "", registered |-> FALSE, chunkOk |-> FALSE,
               obj |-> 0, value |-> None_, n0 |-> 0, raised |-> FALSE, tags |-> <<>>]

Next ==
    \/ \E r \in Runs, t \in ModelStartTags, md \in {NoMd} \cup MdRefs :
            on_chat_model_start(r, t, md)
    \/ \E r \in Runs, ok \in BOOLEAN, o \in TokenObjs, t \in TokenTags :
            on_llm_new_token(r, ok, o, t)
    \/ \E r \in Runs : on_llm_end(r)
    \/ \E r \in Runs : on_llm_error(r)
    \/ \E r \in Runs, n \in Names, i \in Inputs, t \in NodeStartTags, md \in {NoMd} \cup MdRefs :
            on_chain_start(r, n, i, t, md)
    \/ \E r \in Runs, v \in Responses : on_chain_end(r, v)
    \/ \E r \in Runs : on_chain_error(r)

Spec == Init /\ [][Next]_vars

\* Node runs only, with the deeper and wider responses
NextExtract ==
    \/ \E r \in Runs, i \in Inputs, t \in NodeStartTags :
            on_chain_start(r, "N", i, t, 1)
    \/ \E r \in Runs, v \in DeepResponses : on_chain_end(r, v)
    \/ \E r \in Runs : on_chain_error(r)

SpecExtract == Init /\ [][NextExtract]_vars

\* Chat model runs only, with more tag lists
NextTokens ==
    \/ \E r \in Runs, md \in {1, 2} : on_chat_model_start(r, <<>>, md)
    \/ \E r \in Runs, ok \in BOOLEAN, o \in TokenObjs, t \in WideTokenTags :
            on_llm_new_token(r, ok, o, t)
    \/ \E r \in Runs : on_llm_end(r)
    \/ \E r \in Runs : on_llm_error(r)

SpecTokens == Init /\ [][NextTokens]_vars

\* One thread runs on_chain_end on objects that contain themselves
Steps(t) ==
    \/ enter(t)
    \/ iterate(t)
    \/ emit_test(t)
    \/ emit_assign(t)
    \/ emit_insert(t)
    \/ emit_stream(t)

NextCyclic ==
    \/ \E r \in Runs, n \in {"N", "tool"} : on_chain_start(r, n, None_, <<>>, 1)
    \/ \E r \in Runs, root \in CyclicRoots : begin_chain_end("t1", r, root)
    \/ enter("t1")
    \/ iterate("t1")
    \/ emit_test("t1")
    \/ emit_assign("t1")
    \/ emit_insert("t1")
    \/ emit_stream("t1")

\* a thread that is in a handler goes on running
SpecCyclic == Init /\ [][NextCyclic]_vars /\ WF_vars(Steps("t1"))

\* Two threads run on_chain_end at the same time
NextConcurrent ==
    \/ \E r \in Runs : on_chain_start(r, "N", None_, <<>>, 1)
    \/ \E t \in Threads, r \in Runs, root \in SharedIdRoots : begin_chain_end(t, r, root)
    \/ \E t \in Threads : enter(t)
    \/ \E t \in Threads : iterate(t)
    \/ \E t \in Threads : emit_test(t)
    \/ \E t \in Threads : emit_assign(t)
    \/ \E t \in Threads : emit_insert(t)
    \/ \E t \in Threads : emit_stream(t)

SpecConcurrent == Init /\ [][NextConcurrent]_vars

----------------------------------------------------------------------------
(* Properties *)

\* the message objects reachable in a value when only the update field of a
\* Command is entered
RECURSIVE ViaUpdateOnly(_)
ViaUpdateOnly(v) ==
    IF v.kind = "msg" THEN {v.ref}
    ELSE IF v.kind = "cmd" THEN ViaUpdateOnly(v.kids[CmdUpdateIx])
    ELSE UNION {ViaUpdateOnly(v.kids[i]) : i \in DOMAIN v.kids}

\* p comes before q in depth-first, left-to-right order
PathBefore(p, q) ==
    \E k \in 1..Len(p) :
        /\ k <= Len(q)
        /\ SubSeq(p, 1, k - 1) = SubSeq(q, 1, k - 1)
        /\ p[k] < q[k]

EndKinds == {"llm_end", "llm_error", "chain_end", "chain_error"}

\* C1: a chunk forwarded by a node-end extraction never carries an identity that
\* an earlier chunk (from a token event or an extraction) already carried.
C1_DedupOnCompletion ==
    \A i, j \in DOMAIN sink :
        i < j /\ sink[j].via = "node" => sink[j].id # sink[i].id

\* a token event forwarded identity X, and a later node-end of a registered run
\* whose response holds another message object with identity X forwarded nothing
C1_Witness ==
    /\ last.kind = "chain_end" /\ last.registered
    /\ Len(sink) = last.n0
    /\ \E i \in DOMAIN sink, p \in Occurs(last.value, 0) :
        /\ sink[i].via = "token"
        /\ sink[i].msg # p[1]
        /\ sink[i].id = msgId[p[1]]

\* C2: a new-token event with a recognized chunk for a registered run forwards
\* exactly one chunk, the chunk's message, whether or not its identity is seen.
C2_NoDedupOnTokens ==
    [][(last'.kind = "llm_new_token" /\ last'.chunkOk /\ last'.run \in DOMAIN metadata)
        => /\ Len(sink') = Len(sink) + 1
           /\ sink'[Len(sink')].msg = last'.obj
           /\ sink'[Len(sink')].via = "token"]_vars

\* two consecutive token events of one run forwarded the same identity twice
C2_Witness ==
    /\ last.kind = "llm_new_token" /\ last.chunkOk /\ last.registered
    /\ Len(sink) >= 2
    /\ sink[Len(sink)].via = "token" /\ sink[Len(sink) - 1].via = "token"
    /\ sink[Len(sink)].run = sink[Len(sink) - 1].run
    /\ sink[Len(sink)].id = sink[Len(sink) - 1].id
    /\ sink[Len(sink)].idSeen

\* C3: the node-end of a run forwards no chunk for an identity that the run's
\* registering node-start found in its input record (directly or in a sequence
\* value), and after a node-end the run has no Registry entry.
C3_InputSeeding ==
    /\ \A i \in DOMAIN sink :
        sink[i].via = "node" => sink[i].id \notin startEv[sink[i].run].inputIds
    /\ last.kind = "chain_end" => last.run \notin DOMAIN metadata

\* a registered run ended with a response holding a message whose identity was
\* in its input record
C3_Witness ==
    /\ last.kind = "chain_end" /\ last.registered
    /\ \E p \in Occurs(last.value, 0) :
        p[2] <= 4 /\ msgId[p[1]] \in startEv[last.run].inputIds

\* C4: every forwarded message has a non-null identity; one that had none got an
\* identity that was not in the Seen-Set, and no two such identities are equal.
C4_IdentityAssignment ==
    /\ \A i \in DOMAIN sink :
        sink[i].id # NULL /\ (sink[i].srcNull => ~sink[i].idSeen)
    /\ \A i, j \in DOMAIN sink :
        i < j /\ sink[i].srcNull /\ sink[j].srcNull => sink[i].id # sink[j].id

\* two messages without identity were forwarded
C4_Witness ==
    \E i, j \in DOMAIN sink : i < j /\ sink[i].srcNull /\ sink[j].srcNull

\* C5: no token event forwards a chunk for a run whose model-start carried the
\* "no-stream" tag.
C5_NoStreamGating ==
    \A i \in DOMAIN sink :
        sink[i].via = "token" => ~startEv[sink[i].run].noStream

\* a recognized chunk arrived for such a run while another run was registered
C5_Witness ==
    /\ last.kind = "llm_new_token" /\ last.chunkOk
    /\ startEv[last.run].noStream
    /\ DOMAIN metadata # {}

\* C6: no node-end forwards a chunk for a run whose node-start carried the
\* "hidden" tag.
C6_HiddenGating ==
    \A i \in DOMAIN sink :
        sink[i].via = "node" => ~startEv[sink[i].run].hidden

\* such a run ended with a response that holds a message with an unseen identity
C6_Witness ==
    /\ last.kind = "chain_end"
    /\ startEv[last.run].hidden
    /\ \E p \in Occurs(last.value, 0) : p[2] <= 4 /\ msgId[p[1]] \notin seen

\* C7: after an end or error event for a run the Registry has no entry for it,
\* the event raises nothing, it changes nothing when the run had no entry, and
\* the Registry holds only runs with a start event and no end/error event since.
C7_RegistryLifecycle ==
    [][/\ last'.kind \in EndKinds =>
            /\ last'.run \notin DOMAIN metadata'
            /\ ~last'.raised
            /\ last'.run \notin DOMAIN metadata =>
                    UNCHANGED <<metadata, seen, sink, msgId, mdTags, nextUuid>>
       /\ \A r \in DOMAIN metadata' : startEv'[r].phase = "open"]_vars

\* an error event arrived for a run without entry while another run had one
C7_Witness ==
    /\ last.kind \in {"llm_error", "chain_error"}
    /\ ~last.registered
    /\ DOMAIN metadata # {}

\* C8: in a node-end extraction a message under at most 4 containers whose
\* identity is not seen is forwarded; a message (object and identity) that occurs
\* only under 5 or more containers is not forwarded, keeps its identity field,
\* and its identity is not added to the Seen-Set.
C8_DepthCap ==
    [][(last'.kind = "chain_end" /\ last'.registered) =>
        LET occ == Occurs(last'.value, 0)
            new == {sink'[i] : i \in (Len(sink) + 1)..Len(sink')}
            shallow == {p \in occ : p[2] <= 4}
        IN /\ \A p \in shallow :
                msgId[p[1]] \notin seen => \E c \in new : c.id = msgId'[p[1]]
           /\ \A p \in occ :
                (/\ p[2] >= 5
                 /\ \A q \in shallow : q[1] # p[1] /\ msgId[q[1]] # msgId[p[1]])
                => /\ \A c \in new : c.msg # p[1]
                   /\ msgId'[p[1]] = msgId[p[1]]
                   /\ (msgId[p[1]] \in seen' => msgId[p[1]] \in seen)]_vars

\* a registered run ended with a response holding one message under exactly 4
\* containers, which it forwarded, and one with another, unseen identity under 5
\* or more
C8_Witness ==
    /\ last.kind = "chain_end" /\ last.registered
    /\ Len(sink) > last.n0
    /\ \E p, q \in Occurs(last.value, 0) :
        /\ p[2] = 4 /\ sink[Len(sink)].msg = p[1]
        /\ q[2] >= 5 /\ msgId[q[1]] # NULL /\ msgId[q[1]] \notin seen

\* C9: a node-end extraction forwards only messages it can reach without
\* entering a field of a Command other than update.
C9_UpdateOnly ==
    last.kind = "chain_end" =>
        \A i \in (last.n0 + 1)..Len(sink) : sink[i].msg \in ViaUpdateOnly(last.value)

\* C10: every handler call appends its chunks to the sink and leaves the earlier
\* ones in place; only new-token and node-end calls append, a new-token call at
\* most one chunk, a node-end call in depth-first left-to-right order.
C10_Ordering ==
    [][LET n == Len(sink)
           new == (n + 1)..Len(sink')
       IN /\ Len(sink') >= n
          /\ SubSeq(sink', 1, n) = sink
          /\ new # {} => last'.kind \in {"llm_new_token", "chain_end"}
          /\ last'.kind = "llm_new_token" => Cardinality(new) <= 1
          /\ \A i \in new :
                /\ sink'[i].run = last'.run
                /\ sink'[i].via = IF last'.kind = "chain_end" THEN "node" ELSE "token"
          /\ \A i, j \in new : i < j => PathBefore(sink'[i].path, sink'[j].path)]_vars

\* a node-end forwarded two chunks, the second one from a nested container
C10_Witness ==
    /\ last.kind = "chain_end"
    /\ Len(sink) >= last.n0 + 2
    /\ Len(sink[Len(sink)].path) > Len(sink[Len(sink) - 1].path)

\* the chunks the last handler call appended, as a set of sink positions
NewChunks == (last.n0 + 1)..Len(sink)

HasSeqStep(tags) == \E i \in DOMAIN tags : startswith(tags[i], SEQ_STEP)

\* C11 as stated: no chunk of a token event carries a tag that starts with
\* "seq:step" in its metadata's tags field.
C11_NoSeqStepTags ==
    \A i \in DOMAIN sink : sink[i].via = "token" => ~HasSeqStep(sink[i].tags.tags)

\* C11 amended: a chunk of a token event carries a "seq:step" tag only when every
\* tag of the event is such a tag (or it has none) and the tags field of the
\* run's metadata is what it was before the event.
C11_SeqStepOnlyInherited ==
    [][(last'.kind = "llm_new_token" /\ Len(sink') > Len(sink)) =>
        LET c == sink'[Len(sink')] IN
        HasSeqStep(c.tags.tags) =>
            /\ \A i \in DOMAIN last'.tags : startswith(last'.tags[i], SEQ_STEP)
            /\ c.tags = mdTags[c.md]
            /\ mdTags' = mdTags]_vars

\* a token event with a "seq:step" tag and another tag forwarded a chunk for a
\* run whose metadata had a "seq:step" tag, and the chunk has none
C11_Witness ==
    /\ last.kind = "llm_new_token" /\ Len(sink) > last.n0
    /\ HasSeqStep(last.tags)
    /\ HasSeqStep(InitMdTags[sink[Len(sink)].md].tags)
    /\ ~HasSeqStep(sink[Len(sink)].tags.tags)

\* C12: a token event or a chain end for a run that is not registered, and a
\* token event whose chunk is not a chat generation chunk (registered run or
\* not), forwards nothing and leaves the seen set, the registry and the tags of
\* every metadata dict as they were.
C12_IgnoredEvents ==
    [][(\/ /\ last'.kind = "llm_new_token"
           /\ (~last'.chunkOk \/ last'.run \notin DOMAIN metadata)
        \/ /\ last'.kind = "chain_end"
           /\ last'.run \notin DOMAIN metadata)
       => /\ sink' = sink
          /\ seen' = seen
          /\ metadata' = metadata
          /\ mdTags' = mdTags
          /\ msgId' = msgId]_vars

\* a token event with a tag to keep, for a registered run whose metadata has no
\* tags field, was ignored because of its chunk
C12_Witness ==
    /\ last.kind = "llm_new_token" /\ ~last.chunkOk
    /\ last.run \in DOMAIN metadata
    /\ \E i \in DOMAIN last.tags : ~startswith(last.tags[i], SEQ_STEP)
    /\ ~mdTags[metadata[last.run].md].has

\* the segments joined with the separator
RECURSIVE JoinNs(_)
JoinNs(p) ==
    IF p = <<>> THEN <<>>
    ELSE IF Len(p) = 1 THEN p[1]
    ELSE p[1] \o <<NS_SEP>> \o JoinNs(Tail(p))

\* C13: every chunk handed to the sink is (namespace path, "messages", (message,
\* metadata)): the path is the split, on the separator, of the checkpoint
\* namespace of the metadata given to the start event that registered the run,
\* and the metadata is that same dict, as it is when the chunk is forwarded.
C13_ChunkShape ==
    [][\A i \in (Len(sink) + 1)..Len(sink') :
        LET c == sink'[i]
            md == startEv[c.run].md
        IN /\ c.run = last'.run
           /\ md # NoMd
           /\ c.mode = "messages"
           /\ c.md = md
           /\ c.tags = mdTags'[md]
           /\ msgId'[c.msg] = c.id
           /\ Len(c.ns) >= 1
           /\ \A k \in DOMAIN c.ns : NS_SEP \notin Range(c.ns[k])
           /\ JoinNs(c.ns) = MdObjs[md].ns]_vars

\* a token chunk and a node chunk were forwarded, one of them for a run whose
\* checkpoint namespace has two segments
C13_Witness ==
    /\ \E i \in DOMAIN sink : sink[i].via = "token"
    /\ \E i \in DOMAIN sink : sink[i].via = "node"
    /\ \E i \in DOMAIN sink : Len(sink[i].ns) = 2 /\ Len(MdObjs[sink[i].md].ns) = 3

\* C15: a node run forwards no message whose id, non-null, was the id of a
\* message anywhere in the input record of its start event.
C15_PassThrough ==
    \A i \in DOMAIN sink :
        sink[i].via = "node" => sink[i].id \notin startEv[sink[i].run].deepIds

\* the tags of a token event that are not "seq:step" tags
KeptTags(tags) == SelectSeq(tags, LAMBDA t : ~HasSeqStep(<<t>>))

\* what C16 says of one step, for the token events that satisfy Handled
LastTagsWin(Handled) ==
    LET F == KeptTags(last'.tags)
        token == last'.kind = "llm_new_token" /\ last'.run \in DOMAIN metadata
    IN /\ (token /\ Handled /\ F # <<>>) =>
            /\ mdTags'[metadata[last'.run].md] = [has |-> TRUE, tags |-> F]
            /\ metadata'[last'.run] = metadata[last'.run]
       /\ (token /\ F = <<>>) => mdTags' = mdTags
       /\ mdTags' # mdTags => (token /\ F # <<>>)
       /\ \A i \in (Len(sink) + 1)..Len(sink') :
            sink'[i].tags = mdTags'[metadata[sink'[i].run].md]

\* C16 as stated: a token event for a registered run whose filtered tag list F
\* is non-empty leaves the run's metadata with tags = F; the tags field changes at
\* no other event, and every chunk carries the field as it is when forwarded.
C16_LastTagsWin == [][LastTagsWin(TRUE)]_vars

\* C16 amended: the same, for the token events whose chunk is a chat generation
\* chunk.
C16_LastTagsWinOfChatChunks == [][LastTagsWin(last'.chunkOk)]_vars

\* a token event with nothing but a "seq:step" tag forwarded a chunk carrying
\* the tags an earlier token event of the run had written
C16_Witness ==
    /\ Len(sink) = 2
    /\ last.kind = "llm_new_token" /\ last.n0 = 1 /\ last.tags = <<TagSeq1>>
    /\ sink[1].run = sink[2].run
    /\ ~InitMdTags[sink[2].md].has
    /\ sink[2].tags = [has |-> TRUE, tags |-> <<TagUser>>]
    /\ sink[1].tags = sink[2].tags

\* C17: a chat model start, a chat model end, a chat model error and a chain
\* error forward nothing and leave the seen set as it was; the three that end a
\* run leave the registry entry of every other run, and its metadata, as they
\* were.
C17_CleanupOnly ==
    [][/\ last'.kind \in {"chat_model_start", "llm_end", "llm_error", "chain_error"} =>
            /\ sink' = sink
            /\ seen' = seen
            /\ msgId' = msgId
       /\ last'.kind \in {"llm_end", "llm_error", "chain_error"} =>
            /\ mdTags' = mdTags
            /\ \A r \in DOMAIN metadata \ {last'.run} :
                    r \in DOMAIN metadata' /\ metadata'[r] = metadata[r]]_vars

\* a registered chat model run ended while another run was registered and the
\* seen set and the sink were not empty
C17_Witness ==
    /\ last.kind = "llm_end" /\ last.registered
    /\ DOMAIN metadata # {}
    /\ seen # {} /\ sink # <<>>

\* C18: no event removes an id from the seen set, and in every reachable state
\* the id of every forwarded chunk's message is in the seen set.
C18_SeenMonotoneAndCovering ==
    /\ [](\A i \in DOMAIN sink : sink[i].id \in seen /\ sink[i].id # NULL)
    /\ [][seen \subseteq seen']_vars

\* the seen set holds an id seeded from an input record, an id that came with a
\* forwarded message and an id assigned on forwarding
C18_Witness ==
    /\ Len(sink) = 2
    /\ sink[1].srcNull /\ ~sink[2].srcNull
    /\ \E id \in seen : \A i \in DOMAIN sink : sink[i].id # id

\* C19: a chain start that does not register its run (no metadata, a name other
\* than the metadata's node, or the hidden tag) leaves the seen set as it was.
C19_SeedingOnlyWhenRegistered ==
    [][(last'.kind = "chain_start" /\ last'.run \notin DOMAIN metadata') =>
            seen' = seen /\ sink' = sink]_vars

\* the chain end of one run forwarded a message whose id was in the input
\* record of the earlier chain start, not registered, of another run
C19_Witness ==
    /\ last.kind = "chain_end" /\ Len(sink) > last.n0
    /\ \E r \in Runs \ {last.run} :
        /\ startEv[r].kind = "node" /\ startEv[r].md = NoMd
        /\ sink[Len(sink)].id \in startEv[r].rawIds

\* C14: on_chain_end returns after finitely many steps for every response, one
\* that contains itself included, and no call of _process_response has a depth
\* above 5.
C14_ExtractionTerminates ==
    /\ [](\A t \in Threads : \A k \in DOMAIN thr[t].stack :
            thr[t].stack[k].depth <= 5)
    /\ (Active("t1") ~> thr["t1"].pc = "done")

\* on_chain_end returned after walking, down to depth 5, an object that contains
\* itself, and forwarded the message in it
C14_Witness ==
    /\ thr["t1"].pc = "done"
    /\ thr["t1"].deepest = 5
    /\ sink # <<>>

\* the chunks forwarded for a message id, as a set of sink positions
ChunksFor(id) == {i \in DOMAIN sink : sink[i].id = id}

\* C20 as stated: when two chain ends run at the same time, their steps
\* interleaved, on responses that hold a message with the same unseen id, at most
\* one chunk for that id reaches the sink.
C20_AtMostOneChunk ==
    \A i \in DOMAIN sink : Cardinality(ChunksFor(sink[i].id)) <= 1

\* C20 amended: each chain end forwards at most one chunk for an id, and two
\* chunks for one id reach the sink only from two chain ends that ran at the
\* same time; chain ends that run one after the other forward at most one.
C20_AtMostOneChunkEach ==
    \A i \in DOMAIN sink : \A j \in DOMAIN sink :
        (i # j /\ sink[i].id = sink[j].id) =>
            /\ sink[i].run # sink[j].run
            /\ \A t \in Threads :
                    thr[t].run \in {sink[i].run, sink[j].run} => thr[t].overlap

\* two chain ends that ran at the same time have both returned, and each has
\* forwarded a chunk for the id their responses share
C20_Witness ==
    /\ \A t \in Threads : thr[t].pc = "done" /\ thr[t].overlap
    /\ Len(sink) = 2
    /\ sink[1].id = X /\ sink[2].id = X
    /\ sink[1].run # sink[2].run

====
